---- MODULE Spec2Model ----
(***************************************************************************)
(* Document store and retrieval subsystem of ai-rag-starter.               *)
(*                                                                         *)
(* Spec       the process-wide store of src/lib/vector-store.ts            *)
(*            (vectorStoreInstance, storedDocuments, documentMetas) driven *)
(*            by concurrently running request handlers.  Node runs one     *)
(*            handler at a time and switches handlers only at an await     *)
(*            that waits for I/O: the fetch made by embedDocuments.  An    *)
(*            await of getVectorStore() or addVectors(), whose bodies run  *)
(*            synchronously, resumes in the same microtask drain, so the   *)
(*            code between two embedding calls is one step.                *)
(*                                                                         *)
(*            Objects are held by value, with a flag for each reference a  *)
(*            handler keeps across an await: vsCurrent says that the store *)
(*            captured at vector-store.ts:105 is still the object          *)
(*            global.vectorStoreInstance points to, docsCurrent that       *)
(*            remainingDocs (line 169) is still the array                  *)
(*            global.storedDocuments points to.  A store object the global *)
(*            no longer points to is never read again, and an array it no  *)
(*            longer points to is never written again.                     *)
(* SpecAddDelete, SpecAddClear, SpecDeletes                                *)
(*            the store of Spec under two kinds of call only, every        *)
(*            embedding call answered: add and delete, add and clear, and  *)
(*            deletes on a store that holds two documents.                 *)
(* SpecApi    the routes served one request at a time: upload, knowledge   *)
(*            (statistics, updateConfig, deleteDocument, clear), reindex   *)
(*            and chat.  It adds the configuration, the uploads directory  *)
(*            and the credential, read from the environment by each        *)
(*            request, to the store of Spec.                               *)
(* SpecFeedbackRace the feedback route with overlapping requests.           *)
(* SpecStream the reading of a streamed answer in src/lib/llm.ts.           *)
(* SpecSerial the store of Spec, its functions called one after the other.  *)
(* SpecIngest the upload and reindex routes alone, on files for which the  *)
(*            splitter returns pieces or nothing.                          *)
(* SpecFeedback the feedback route (POST, DELETE) on data/feedback.json,    *)
(*            one request at a time: a request loads the file, changes the *)
(*            loaded data in memory and writes it back.                    *)
(* SpecRoutes the feedback route served along with the routes that add to, *)
(*            delete from, clear and rebuild the store.                    *)
(* SpecEmbed  one call of DashScopeEmbeddings.embedDocuments on a bounded  *)
(*            input list, the embedding service answering or failing each  *)
(*            sub-batch request.                                           *)
(* SpecInsert one batch of addDocumentsToStore after its embedding call    *)
(*            returned: the vectors, as many and as long as the service    *)
(*            made them, are put into the store one by one.                *)
(***************************************************************************)
EXTENDS Integers, Sequences, FiniteSets

VARIABLES
    clock,                \* Date.now() as last read, in milliseconds (0: not yet read)
    opCount,              \* operations started so far (numbers the ingested files)
    vectorStoreInstance,  \* global.vectorStoreInstance: defined or not, its memoryVectors
    storedDocuments,      \* global.storedDocuments (undefined reads as [])
    documentMetas,        \* global.documentMetas (undefined reads as [])
    ragConfig,            \* what getRagConfig() returns (the default until one is set)
    uploadDir,            \* the files of the uploads directory, by name
    procs,                \* request handlers: position and locals of each
    ev,                   \* the last step a handler took (history)
    eDocs,                \* embedDocuments: the argument `documents`
    ePc,                  \* embedDocuments: position
    eI,                   \* embedDocuments: loop variable i
    eResults,             \* embedDocuments: local `results`
    eCalls,               \* requests sent to the embedding service, oldest first
    eOut,                 \* embedDocuments: what the caller got
    iVectors,             \* addDocumentsToStore, one batch: what embedDocuments returned
    iBatch,               \* addDocumentsToStore, one batch: batch.length
    iJ,                   \* addDocumentsToStore, one batch: loop variable j
    iMemory,              \* that batch's store: memoryVectors, each with its embedding
    iStored,              \* that batch's storedDocuments
    feedbackFile,         \* data/feedback.json
    deleted,              \* the uploaded files whose document deleteDocument removed (history)
    gSent,                \* _generate: the delta contents the server sent, in order
    gBody,                \* _generate: the part of response.body not yet read
    gContent,             \* _generate: local `content`
    gPc                   \* _generate: position

apiVars == <<ragConfig, uploadDir>>
storeVars == <<clock, opCount, vectorStoreInstance, storedDocuments, documentMetas,
               apiVars, procs, ev>>
embedVars == <<eDocs, ePc, eI, eResults, eCalls, eOut>>
insertVars == <<iVectors, iBatch, iJ, iMemory, iStored>>
streamVars == <<gSent, gBody, gContent, gPc>>
otherVars == <<embedVars, insertVars, feedbackFile, streamVars>>
sideVars == <<otherVars, deleted>>
vars == <<storeVars, sideVars>>

----------------------------------------------------------------------------
(* Bounds of the model and constants of the program *)

NumProcs == 2
MaxOps == 3
MaxClock == 2
MaxChunks == 11
MaxTexts == 21
MaxShape == 2
MaxFiles == 2
MaxBatch == 3
MaxDeltas == 2
MaxMessages == 2
BatchSize == 10
EmbedBatchSize == 10
MaxTextLen == 2048
MinContentLen == 10
MinTopK == 1
MaxTopK == 20
MaxQuestionLen == 100
MaxSuggested == 3

Procs == 1..NumProcs
DocSizes == {1, MaxChunks}
DocIds == 1..MaxClock
FileNames == 1..MaxFiles
\* What Date.now() may read next.
NextReadings == {t \in {clock, clock + 1} : t \in DocIds}
\* The ids a caller may ask to delete: the ones issued so far and one that no
\* document ever had.
AskedIds == {id \in 1..(clock + 1) : id \in DocIds}

Min(a, b) == IF a < b THEN a ELSE b

RECURSIVE SumSeq(_)
SumSeq(s) == IF s = <<>> THEN 0 ELSE Head(s) + SumSeq(Tail(s))

Range(s) == {s[x] : x \in DOMAIN s}

----------------------------------------------------------------------------
(* The store: src/lib/vector-store.ts *)

\* `doc_${Date.now()}`: the id is the clock reading, nothing else.
NewDocId(t) == t

\* A chunk as stored: the k-th split of ingested file src, tagged with docId.
Chunk(id, src, k) == [docId |-> id, src |-> src, k |-> k]

\* docs.slice(i, i + batchSize) of the n chunks of file src, tagged with docId.
AddBatch(id, src, i, n) ==
    [x \in 1..(Min(i + BatchSize, n) - i) |-> Chunk(id, src, i + x)]

Undefined == [defined |-> FALSE, memoryVectors |-> <<>>]
NewStore(mem) == [defined |-> TRUE, memoryVectors |-> mem]

\* The entries a search on the current index can return.
Searchable == Range(vectorStoreInstance.memoryVectors)

KeepOthers(s, id) == SelectSeq(s, LAMBDA d : d.docId # id)
KeepOtherMetas(s, id) == SelectSeq(s, LAMBDA m : m.id # id)

ChunkCounts(metas) == [x \in DOMAIN metas |-> metas[x].chunkCount]

\* getKnowledgeBaseStats()
getKnowledgeBaseStats ==
    [documentCount |-> Len(documentMetas),
     totalChunks |-> SumSeq(ChunkCounts(documentMetas))]

\* The fields of RagConfig, lines 15-21.  A model name is held as its number in
\* AVAILABLE_MODELS (llm.ts:148-160), a temperature in tenths.
ConfigFields == {"topK", "chunkSize", "chunkOverlap", "model", "temperature"}

DefaultTopK == 5
DefaultChunkSize == 500
DefaultChunkOverlap == 100
DefaultModel == 3
DefaultTemperature == 3

\* DEFAULT_RAG_CONFIG, lines 24-30.
DEFAULT_RAG_CONFIG ==
    [topK |-> DefaultTopK, chunkSize |-> DefaultChunkSize,
     chunkOverlap |-> DefaultChunkOverlap, model |-> DefaultModel,
     temperature |-> DefaultTemperature]

\* A request body that names no configuration field.
NoBody == [f \in {} |-> 0]

\* No model output.
NoRaw == [sep |-> FALSE, lines |-> <<>>]

\* A chat request without the optional topK.
NoTopK == [given |-> FALSE, value |-> 0]

\* What loadFeedbackData returns when the file cannot be read (lines 38-47).
EmptyFeedbackData ==
    [records |-> <<>>, stats |-> [totalLikes |-> 0, totalDislikes |-> 0]]

\* No answer of the reindex route.
NoResponse == [done |-> FALSE, processed |-> 0, totalChunks |-> 0]

\* No feedback request: no messageId, no question and answer, no feedbackType.
NoFeedback == [messageId |-> 0, complete |-> FALSE, feedbackType |-> "none"]

\* No feedback was ever saved: there is no file.
NoFeedbackFile == [present |-> FALSE, data |-> EmptyFeedbackData]

\* An uploaded file: the length of its text once normalised and the number of
\* pieces the splitter cuts it into.
NoFile == [len |-> 0, split |-> 0, up |-> 0]

Idle == [pc |-> "idle", docId |-> 0, src |-> 0, n |-> 0, i |-> 0, vsCurrent |-> FALSE,
         docsCurrent |-> FALSE, remainingDocs |-> <<>>, batchEnd |-> 0,
         newVectorStore |-> <<>>, before |-> 0, removed |-> <<>>, kept |-> FALSE,
         files |-> <<>>, key |-> TRUE, override |-> NoTopK, cfgTopK |-> 0,
         topK |-> 0, docs |-> 0, whole |-> FALSE, split |-> 0,
         data |-> EmptyFeedbackData, fb |-> NoFeedback,
         reindex |-> FALSE, processed |-> 0, totalChunks |-> 0, file |-> 0,
         removedFiles |-> {}]

\* What a handler does when addDocumentsToStore is over: the upload route
\* answers; the reindex route goes on to the next file, if there is one
\* (reindex/route.ts:105-150).
AfterAdd(l) ==
    IF l.files = <<>> THEN Idle
    ELSE [Idle EXCEPT !.pc = "reindexFile", !.files = l.files, !.key = l.key,
                      !.reindex = l.reindex, !.processed = l.processed,
                      !.totalChunks = l.totalChunks]

\* reindex/route.ts lines 142-143: a file of a reindex was added; the route
\* counts it and its pieces.
Succeeded(l) ==
    IF l.reindex THEN [l EXCEPT !.processed = @ + 1, !.totalChunks = @ + l.n]
    ELSE l

\* Lines 152-158: what the reindex route answers once its last file is dealt
\* with; no answer of that route before.
Response(l) ==
    IF l.reindex /\ l.files = <<>>
    THEN [done |-> TRUE, processed |-> l.processed, totalChunks |-> l.totalChunks]
    ELSE NoResponse

NoEv == [op |-> "none", again |-> FALSE, proc |-> 0, ok |-> TRUE, docId |-> 0,
         src |-> 0, before |-> 0, removed |-> <<>>, ret |-> 0, kept |-> FALSE,
         same |-> TRUE, calls |-> 0, noKey |-> FALSE, body |-> NoBody,
         override |-> NoTopK, cfgTopK |-> 0, docs |-> 0, chunks |-> 0,
         answer |-> "none", suggested |-> <<>>, llm |-> 0, raw |-> NoRaw,
         error |-> {}, split |-> 0, fb |-> NoFeedback, response |-> NoResponse]

\* The step handler p takes now; again: it repeats the step recorded in ev.
Ev(op, p) == [NoEv EXCEPT !.op = op, !.again = (ev.op = op), !.proc = p]

\* Handler slots are interchangeable: a new request takes the lowest free one.
FreeSlot(p) == procs[p].pc = "idle" /\ \A q \in Procs : q < p => procs[q].pc # "idle"

\* global.vectorStoreInstance is assigned another object (or undefined): the store
\* a running add captured is no longer the current one.
DetachStore(ps) == [q \in Procs |-> [ps[q] EXCEPT !.vsCurrent = FALSE]]

\* global.storedDocuments is assigned another array: the remainingDocs of a
\* running delete keeps what the array held and is pushed to no more.
DetachDocs(ps) ==
    [q \in Procs |->
        IF ps[q].docsCurrent
        THEN [ps[q] EXCEPT !.docsCurrent = FALSE, !.remainingDocs = storedDocuments]
        ELSE ps[q]]

\* No streamed answer is being read.
StreamOff ==
    /\ gSent = <<>>
    /\ gBody = <<>>
    /\ gContent = <<>>
    /\ gPc = "off"

\* No batch is being inserted.
InsertOff ==
    /\ iVectors = <<>>
    /\ iBatch = 0
    /\ iJ = 0
    /\ iMemory = <<>>
    /\ iStored = <<>>

Init ==
    /\ clock = 0
    /\ opCount = 0
    /\ vectorStoreInstance = Undefined
    /\ storedDocuments = <<>>
    /\ documentMetas = <<>>
    /\ ragConfig = DEFAULT_RAG_CONFIG
    /\ uploadDir = [name \in FileNames |-> NoFile]
    /\ procs = [p \in Procs |-> Idle]
    /\ ev = NoEv
    /\ eDocs = <<>>
    /\ ePc = "off"
    /\ eI = 0
    /\ eResults = <<>>
    /\ eCalls = <<>>
    /\ eOut = [kind |-> "pending", value |-> <<>>]
    /\ InsertOff
    /\ feedbackFile = NoFeedbackFile
    /\ deleted = {}
    /\ StreamOff

\* getVectorStore(): the current instance, a new empty one when there is none.
getVectorStore ==
    IF vectorStoreInstance.defined THEN vectorStoreInstance ELSE NewStore(<<>>)

\* addDocumentsToStore, lines 104-123: up to the first await of embedDocuments.
\* Its callers pass at least one chunk (upload/route.ts:154, reindex/route.ts:135).
\* Date.now() reads t: the millisecond of the last reading or a later one (the
\* next serves for any later one: ids are only compared for equality).
\* docs: how many documents are passed (n), whether they are the one unsplit
\* document (whole), how many pieces the splitter had returned (split) and
\* the uploaded file they were cut from (file, 0: none).
AddStartDocs(p, docs, t) ==
    /\ FreeSlot(p)
    /\ opCount < MaxOps
    /\ opCount' = opCount + 1
    /\ clock' = t
    /\ vectorStoreInstance' = getVectorStore
    /\ procs' = [procs EXCEPT ![p] =
          [Idle EXCEPT !.pc = "addEmbed", !.docId = NewDocId(t),
                       !.src = opCount + 1, !.n = docs.n, !.i = 0,
                       !.vsCurrent = TRUE, !.whole = docs.whole,
                       !.split = docs.split, !.file = docs.file]]
    /\ ev' = [Ev("addStart", p) EXCEPT !.docId = NewDocId(t),
                          !.src = opCount + 1, !.calls = 1]
    /\ UNCHANGED <<storedDocuments, documentMetas, ragConfig, sideVars>>

\* addDocumentsToStore of the n pieces of a file.
AddStart(p, n, t) ==
    AddStartDocs(p, [n |-> n, whole |-> FALSE, split |-> n, file |-> 0], t)

\* The batch a running add has sent for embedding: pieces i+1.. of the file, or
\* the unsplit text (piece 0) when the splitter had returned nothing.
HandlerBatch(l) ==
    IF l.whole THEN <<Chunk(l.docId, l.src, 0)>>
    ELSE AddBatch(l.docId, l.src, l.i, l.n)

\* vectorStore.addVectors on the store captured at line 105, for a whole batch.
AddVectors(l, batch) ==
    IF l.vsCurrent THEN NewStore(vectorStoreInstance.memoryVectors \o batch)
    ELSE vectorStoreInstance

\* A record that counts the chunks stored before the last batch.
DocMetaBeforeLast(l) ==
    [id |-> l.docId, src |-> l.src, chunkCount |-> l.i, file |-> l.file]

\* The record pushed to documentMetas, lines 146-154 (src: the ingestion it
\* came from; file: the file of the uploads directory that was read, 0 when
\* the caller is no route).
DocMeta(l) == [id |-> l.docId, src |-> l.src, chunkCount |-> l.n, file |-> l.file]

\* Lines 123-143, the embedding call of the current batch answered: its chunks go
\* to the captured store and to the current storedDocuments; then the next batch
\* is sent, or the record is pushed (lines 146-158).
AddEmbedOk(p) ==
    LET l == procs[p]
        batch == HandlerBatch(l)
        last == l.i + BatchSize >= l.n
    IN  /\ l.pc = "addEmbed"
        /\ vectorStoreInstance' = AddVectors(l, batch)
        /\ storedDocuments' = storedDocuments \o batch
        /\ documentMetas' = IF last THEN Append(documentMetas, DocMeta(l))
                            ELSE documentMetas
        /\ procs' = [procs EXCEPT ![p] =
              IF last THEN AfterAdd(Succeeded(l))
              ELSE [l EXCEPT !.i = l.i + BatchSize]]
        /\ ev' = [Ev(IF last THEN "addDone" ELSE "addBatch", p) EXCEPT
                              !.docId = l.docId, !.src = l.src,
                              !.calls = IF last THEN 0 ELSE 1, !.split = l.split,
                              !.response = IF last THEN Response(Succeeded(l))
                                           ELSE NoResponse]
        /\ UNCHANGED <<clock, opCount, apiVars, sideVars>>

\* Lines 139-142: embedDocuments threw; the error is logged and rethrown.
AddEmbedFail(p) ==
    LET l == procs[p]
    IN  /\ l.pc = "addEmbed"
        /\ procs' = [procs EXCEPT ![p] = AfterAdd(l)]
        /\ ev' = [Ev("addFail", p) EXCEPT !.ok = FALSE,
                              !.docId = l.docId, !.src = l.src,
                              !.response = Response(l)]
        /\ UNCHANGED <<clock, opCount, vectorStoreInstance, storedDocuments,
                       documentMetas, apiVars, sideVars>>

\* remainingDocs.slice(i, i + batchSize) taken at line 179: the end of the batch.
BatchEnd(i, len) == Min(i + BatchSize, len)

\* deleteDocument, lines 162-181 (or to 193 when nothing remains): the record and
\* the retained chunks are dropped at once, a new store object is built aside.
DeleteStart(p, id) ==
    LET remaining == KeepOthers(storedDocuments, id)
        removed == SelectSeq(documentMetas, LAMBDA m : m.id = id)
        before == getKnowledgeBaseStats.totalChunks
        empty == Len(remaining) = 0
        kept == remaining = storedDocuments /\ removed = <<>>
        detached == DetachDocs(procs)
        files == {m.file : m \in Range(removed)} \ {0}
    IN  /\ FreeSlot(p)
        /\ opCount < MaxOps
        /\ opCount' = opCount + 1
        /\ documentMetas' = KeepOtherMetas(documentMetas, id)
        /\ storedDocuments' = remaining
        /\ vectorStoreInstance' = IF empty THEN NewStore(<<>>) ELSE vectorStoreInstance
        /\ procs' =
              IF empty THEN DetachStore(detached)
              ELSE [detached EXCEPT ![p] =
                      [Idle EXCEPT !.pc = "delEmbed", !.docId = id, !.i = 0,
                                   !.docsCurrent = TRUE,
                                   !.batchEnd = BatchEnd(0, Len(remaining)),
                                   !.before = before,
                                   !.removed = ChunkCounts(removed),
                                   !.kept = kept, !.removedFiles = files]]
        /\ ev' = [Ev(IF empty THEN "delDone" ELSE "delStart", p) EXCEPT
                              !.docId = id, !.before = before,
                              !.removed = ChunkCounts(removed), !.ret = 0,
                              !.kept = kept, !.same = (empty => Searchable = {}),
                              !.calls = IF empty THEN 0 ELSE 1]
        /\ deleted' = IF empty THEN deleted \cup files ELSE deleted
        /\ UNCHANGED <<clock, apiVars, otherVars>>

\* The array remainingDocs names: global.storedDocuments while nothing reassigned it.
RemainingDocs(l) == IF l.docsCurrent THEN storedDocuments ELSE l.remainingDocs

\* Lines 181-193, the embedding call of the current batch answered: the batch goes
\* to the new store; then the next batch of remainingDocs (the array itself, which
\* a concurrent add may have grown) is sent, or the new store is published.
DeleteEmbedOk(p) ==
    LET l == procs[p]
        docs == RemainingDocs(l)
        rebuilt == l.newVectorStore \o SubSeq(docs, l.i + 1, l.batchEnd)
        last == l.i + BatchSize >= Len(docs)
    IN  /\ l.pc = "delEmbed"
        /\ vectorStoreInstance' = IF last THEN NewStore(rebuilt) ELSE vectorStoreInstance
        /\ procs' =
              IF last THEN [DetachStore(procs) EXCEPT ![p] = Idle]
              ELSE [procs EXCEPT ![p] =
                      [l EXCEPT !.i = l.i + BatchSize, !.newVectorStore = rebuilt,
                                !.batchEnd = BatchEnd(l.i + BatchSize, Len(docs))]]
        /\ ev' = [Ev(IF last THEN "delDone" ELSE "delBatch", p) EXCEPT
                              !.docId = l.docId, !.before = l.before,
                              !.removed = l.removed, !.ret = Len(docs),
                              !.kept = l.kept,
                              !.same = (last => Range(rebuilt) = Searchable),
                              !.calls = IF last THEN 0 ELSE 1]
        /\ deleted' = IF last THEN deleted \cup l.removedFiles ELSE deleted
        /\ UNCHANGED <<clock, opCount, storedDocuments, documentMetas, apiVars,
                       otherVars>>

\* embedDocuments threw at line 181: deleteDocument rejects, line 189 is not
\* reached (the knowledge route answers 500, feedback/route.ts:281-284).
DeleteEmbedFail(p) ==
    LET l == procs[p]
    IN  /\ l.pc = "delEmbed"
        /\ procs' = [procs EXCEPT ![p] = Idle]
        /\ ev' = [Ev("delFail", p) EXCEPT !.ok = FALSE,
                              !.docId = l.docId, !.before = l.before,
                              !.removed = l.removed, !.kept = l.kept]
        /\ UNCHANGED <<clock, opCount, vectorStoreInstance, storedDocuments,
                       documentMetas, apiVars, sideVars>>

\* A clear that forgets the registry: documentMetas is not reset.
ClearGlobalsKeepMetas(p, op) ==
    /\ FreeSlot(p)
    /\ opCount < MaxOps
    /\ opCount' = opCount + 1
    /\ vectorStoreInstance' = Undefined
    /\ storedDocuments' = <<>>
    /\ procs' = DetachStore(DetachDocs(procs))
    /\ ev' = Ev(op, p)
    /\ UNCHANGED <<clock, documentMetas, apiVars, sideVars>>

\* The three assignments of clearKnowledgeBase and of clearAllDocuments.
ClearGlobals(p, op) ==
    /\ FreeSlot(p)
    /\ opCount < MaxOps
    /\ opCount' = opCount + 1
    /\ vectorStoreInstance' = Undefined
    /\ storedDocuments' = <<>>
    /\ documentMetas' = <<>>
    /\ procs' = DetachStore(DetachDocs(procs))
    /\ ev' = Ev(op, p)
    /\ UNCHANGED <<clock, apiVars, sideVars>>

\* A clear that also empties the feedback file.
clearKnowledgeBaseAndFeedback(p) ==
    /\ FreeSlot(p)
    /\ opCount < MaxOps
    /\ opCount' = opCount + 1
    /\ vectorStoreInstance' = Undefined
    /\ storedDocuments' = <<>>
    /\ documentMetas' = <<>>
    /\ procs' = DetachStore(DetachDocs(procs))
    /\ ev' = Ev("clear", p)
    /\ feedbackFile' = [present |-> TRUE, data |-> EmptyFeedbackData]
    /\ UNCHANGED <<clock, apiVars, embedVars, insertVars, deleted, streamVars>>

clearKnowledgeBase(p) == ClearGlobals(p, "clear")

clearAllDocuments(p) == ClearGlobals(p, "clearAll")

Next ==
    \/ \E p \in Procs, n \in DocSizes, t \in NextReadings :
          AddStart(p, n, t) /\ UNCHANGED uploadDir
    \/ \E p \in Procs : AddEmbedOk(p)
    \/ \E p \in Procs : AddEmbedFail(p)
    \/ \E p \in Procs, id \in AskedIds : DeleteStart(p, id)
    \/ \E p \in Procs : DeleteEmbedOk(p)
    \/ \E p \in Procs : DeleteEmbedFail(p)
    \/ \E p \in Procs : clearKnowledgeBase(p)
    \/ \E p \in Procs : clearAllDocuments(p)

Spec == Init /\ [][Next]_vars

\* addDocumentsToStore and the two clears called concurrently, every embedding
\* call answered.
NextAddClear ==
    \/ \E p \in Procs, n \in DocSizes, t \in NextReadings :
          AddStart(p, n, t) /\ UNCHANGED uploadDir
    \/ \E p \in Procs : AddEmbedOk(p)
    \/ \E p \in Procs : clearKnowledgeBase(p)
    \/ \E p \in Procs : clearAllDocuments(p)

SpecAddClear == Init /\ [][NextAddClear]_vars

\* A document ingested before the operations counted here: file 0 - id, cut
\* into n chunks, whose id is the clock reading id.
StockChunks(id, n) == AddBatch(id, 0 - id, 0, Min(n, BatchSize))
                         \o AddBatch(id, 0 - id, BatchSize, n)

StockMeta(id, n) == [id |-> id, src |-> 0 - id, chunkCount |-> n, file |-> 0]

\* No operation was counted yet and no handler is running; the rest is as
\* after construction.
NothingUnderWay ==
    /\ opCount = 0
    /\ ragConfig = DEFAULT_RAG_CONFIG
    /\ uploadDir = [name \in FileNames |-> NoFile]
    /\ procs = [p \in Procs |-> Idle]
    /\ ev = NoEv
    /\ eDocs = <<>>
    /\ ePc = "off"
    /\ eI = 0
    /\ eResults = <<>>
    /\ eCalls = <<>>
    /\ eOut = [kind |-> "pending", value |-> <<>>]
    /\ InsertOff
    /\ feedbackFile = NoFeedbackFile
    /\ deleted = {}
    /\ StreamOff

\* The globals after files, ingested one after the other, have left these
\* records and chunks.
StoreHolds(metas, chunks) ==
    /\ vectorStoreInstance = NewStore(chunks)
    /\ storedDocuments = chunks
    /\ documentMetas = metas

\* The store after one file was ingested, at clock reading 1, with no request
\* under way.
InitOneDoc ==
    /\ clock = 1
    /\ \E a \in DocSizes : StoreHolds(<<StockMeta(1, a)>>, StockChunks(1, a))
    /\ NothingUnderWay

\* addDocumentsToStore and deleteDocument called concurrently on a store that
\* holds one document, every embedding call answered.
NextAddDelete ==
    \/ \E p \in Procs, n \in DocSizes, t \in NextReadings :
          AddStart(p, n, t) /\ UNCHANGED uploadDir
    \/ \E p \in Procs : AddEmbedOk(p)
    \/ \E p \in Procs, id \in AskedIds : DeleteStart(p, id)
    \/ \E p \in Procs : DeleteEmbedOk(p)

SpecAddDelete == InitOneDoc /\ [][NextAddDelete]_vars

\* The store after two files were ingested one after the other, at clock
\* readings 1 and 2, with no request under way.
InitTwoDocs ==
    /\ clock = 2
    /\ \E a, b \in DocSizes :
          StoreHolds(<<StockMeta(1, a), StockMeta(2, b)>>,
                     StockChunks(1, a) \o StockChunks(2, b))
    /\ NothingUnderWay

\* deleteDocument called concurrently on a store that holds two documents,
\* every embedding call answered.
NextDeletes ==
    \/ \E p \in Procs, id \in AskedIds : DeleteStart(p, id)
    \/ \E p \in Procs : DeleteEmbedOk(p)

SpecDeletes == InitTwoDocs /\ [][NextDeletes]_vars

----------------------------------------------------------------------------
(* The routes, one request at a time: upload, knowledge, reindex, chat *)

\* The handler that serves the requests of SpecApi.
ApiProcs == {1}

\* The files a client uploads: text of 9, 10 and 11 characters once normalised,
\* for which the splitter (run with the configuration of the moment) returns
\* the given number of pieces; it is not run on a text that is too short.
UploadFiles ==
    {[len |-> MinContentLen - 1, split |-> 0],
     [len |-> MinContentLen, split |-> 3],
     [len |-> MinContentLen + 1, split |-> 4]}

\* Files for the ingestion alone: a text too short, a text of 10 characters
\* for which the splitter returns nothing, one it cuts into 3 pieces, and one
\* it cuts into more pieces than one embedding batch takes.
IngestFiles ==
    {[len |-> MinContentLen - 1, split |-> 0],
     [len |-> MinContentLen, split |-> 0],
     [len |-> MinContentLen, split |-> 3],
     [len |-> MinContentLen + 2, split |-> MaxChunks]}

\* No fallback: what the splitter returned is handed on as it is.
SplitDocsAsReturned(file) ==
    [n |-> file.split, whole |-> FALSE, split |-> file.split, file |-> file.up]

\* upload/route.ts:145-150, reindex/route.ts:135-138: the documents handed to
\* addDocumentsToStore, the one unsplit document when the splitter returned
\* none (the text is not empty: it has 10 characters or more).
SplitDocs(file) ==
    [n |-> IF file.split = 0 THEN 1 ELSE file.split,
     whole |-> file.split = 0,
     split |-> file.split,
     file |-> file.up]

\* A request refused before it touched anything.
Refuse(p, op, noKey) ==
    /\ FreeSlot(p)
    /\ opCount < MaxOps
    /\ opCount' = opCount + 1
    /\ ev' = [Ev(op, p) EXCEPT !.ok = FALSE, !.noKey = noKey]
    /\ UNCHANGED <<clock, vectorStoreInstance, storedDocuments, documentMetas,
                   ragConfig, procs, sideVars>>

\* writeFile, upload/route.ts line 42: the file as it lies in the uploads
\* directory; up, the number of the request that wrote it, tells it from any
\* other file written under the same name.
Written(file, up) == [len |-> file.len, split |-> file.split, up |-> up]

\* An upload that stores the file and starts addDocumentsToStore before it
\* looks at the length of the text.
UploadPOSTLateCheck(p, key, name, file, t) ==
    /\ uploadDir' = [uploadDir EXCEPT ![name] = Written(file, opCount + 1)]
    /\ IF file.len >= MinContentLen
       THEN AddStartDocs(p, SplitDocs(Written(file, opCount + 1)), t)
       ELSE /\ FreeSlot(p)
            /\ opCount < MaxOps
            /\ opCount' = opCount + 1
            /\ clock' = t
            /\ vectorStoreInstance' = NewStore(getVectorStore.memoryVectors
                                               \o AddBatch(NewDocId(t), opCount + 1, 0, 1))
            /\ ev' = [Ev("uploadEmpty", p) EXCEPT !.ok = FALSE, !.calls = 1]
            /\ UNCHANGED <<storedDocuments, documentMetas, ragConfig, procs, sideVars>>

\* upload/route.ts POST, lines 16-158, up to the first embedding call: key is
\* whether process.env.DASHSCOPE_API_KEY is set when line 25 reads it; the file
\* is of a supported type and is written to the uploads directory (line 42)
\* before its text is looked at; with no document to add the route answers 400
\* (line 154).
UploadPOST(p, key, name, file, t) ==
    IF ~key THEN Refuse(p, "uploadNoKey", TRUE) /\ UNCHANGED uploadDir
    ELSE /\ uploadDir' = [uploadDir EXCEPT ![name] = Written(file, opCount + 1)]
         /\ IF file.len < MinContentLen THEN Refuse(p, "uploadEmpty", FALSE)
            ELSE IF SplitDocs(Written(file, opCount + 1)).n = 0
                 THEN Refuse(p, "uploadNoChunks", FALSE)
            ELSE AddStartDocs(p, SplitDocs(Written(file, opCount + 1)), t)

\* The bodies of updateConfig requests: no field, one field, several fields,
\* values inside and outside the documented ranges.
ConfigBodies ==
    {NoBody,
     [topK |-> 2],
     [topK |-> 0],
     [topK |-> 0 - 1],
     [chunkSize |-> 50, chunkOverlap |-> 60],
     [model |-> 4, temperature |-> 20]}

\* One field of { ...getRagConfig(), ...config }.
Spread(cfg, body, f) == IF f \in DOMAIN body THEN body[f] ELSE cfg[f]

\* An update that starts from the defaults: fields the body does not name
\* fall back to DEFAULT_RAG_CONFIG.
setRagConfigFromDefaults(body) ==
    [topK |-> Spread(DEFAULT_RAG_CONFIG, body, "topK"),
     chunkSize |-> Spread(DEFAULT_RAG_CONFIG, body, "chunkSize"),
     chunkOverlap |-> Spread(DEFAULT_RAG_CONFIG, body, "chunkOverlap"),
     model |-> Spread(DEFAULT_RAG_CONFIG, body, "model"),
     temperature |-> Spread(DEFAULT_RAG_CONFIG, body, "temperature")]

\* setRagConfig(config), vector-store.ts:64-68: the new global.ragConfig.
setRagConfig(body) ==
    [topK |-> Spread(ragConfig, body, "topK"),
     chunkSize |-> Spread(ragConfig, body, "chunkSize"),
     chunkOverlap |-> Spread(ragConfig, body, "chunkOverlap"),
     model |-> Spread(ragConfig, body, "model"),
     temperature |-> Spread(ragConfig, body, "temperature")]

\* getRagConfig(), lines 57-62.
getRagConfig == ragConfig

\* An update that throws the corpus away so that it is cut again.
UpdateConfigAndReset(p, body) ==
    /\ FreeSlot(p)
    /\ opCount < MaxOps
    /\ opCount' = opCount + 1
    /\ ragConfig' = setRagConfig(body)
    /\ vectorStoreInstance' = Undefined
    /\ storedDocuments' = <<>>
    /\ documentMetas' = <<>>
    /\ ev' = [Ev("updateConfig", p) EXCEPT !.body = body]
    /\ UNCHANGED <<clock, uploadDir, procs, sideVars>>

\* Knowledge route POST with action 'updateConfig', feedback/route.ts:264-272.
UpdateConfig(p, body) ==
    /\ FreeSlot(p)
    /\ opCount < MaxOps
    /\ opCount' = opCount + 1
    /\ ragConfig' = setRagConfig(body)
    /\ ev' = [Ev("updateConfig", p) EXCEPT !.body = body]
    /\ UNCHANGED <<clock, vectorStoreInstance, storedDocuments, documentMetas,
                   uploadDir, procs, sideVars>>

\* The supported files readdir lists, in the order of their names.
RECURSIVE FilesFrom(_)
FilesFrom(name) ==
    IF name \notin FileNames THEN <<>>
    ELSE (IF uploadDir[name] = NoFile THEN <<>> ELSE <<name>>) \o FilesFrom(name + 1)

supportedFiles == FilesFrom(1)

\* The file content a chunk of a reindex comes from: file name of this reindex.
ReindexSrc(name) == MaxOps + (opCount - 1) * MaxFiles + name

\* reindex/route.ts POST, lines 67-111: after readdir, nothing to do (89-95), or
\* clearAllDocuments and the loop entered, up to the parseFile of the first
\* file.  key: whether DASHSCOPE_API_KEY is set while this request runs;
\* readable: whether readdir finds the uploads directory (line 74) or throws
\* (75-81).
ReindexStartClearFirst(p, key, readable) ==
    /\ FreeSlot(p)
    /\ opCount < MaxOps
    /\ opCount' = opCount + 1
    /\ vectorStoreInstance' = Undefined
    /\ storedDocuments' = <<>>
    /\ documentMetas' = <<>>
    /\ IF ~readable \/ supportedFiles = <<>>
       THEN /\ ev' = Ev(IF readable THEN "reindexNone" ELSE "reindexNoDir", p)
            /\ procs' = DetachStore(DetachDocs(procs))
       ELSE /\ procs' = [DetachStore(DetachDocs(procs)) EXCEPT ![p] =
                  [Idle EXCEPT !.pc = "reindexFile", !.files = supportedFiles,
                               !.key = key, !.reindex = TRUE]]
            /\ ev' = [Ev("reindexStart", p) EXCEPT !.noKey = ~key]
    /\ UNCHANGED <<clock, apiVars, sideVars>>

ReindexStart(p, key, readable) ==
    /\ FreeSlot(p)
    /\ opCount < MaxOps
    /\ opCount' = opCount + 1
    /\ IF ~readable
       THEN /\ ev' = Ev("reindexNoDir", p)
            /\ UNCHANGED <<vectorStoreInstance, storedDocuments, documentMetas, procs>>
       ELSE IF supportedFiles = <<>>
       THEN /\ ev' = Ev("reindexNone", p)
            /\ UNCHANGED <<vectorStoreInstance, storedDocuments, documentMetas, procs>>
       ELSE /\ vectorStoreInstance' = Undefined
            /\ storedDocuments' = <<>>
            /\ documentMetas' = <<>>
            /\ procs' = [DetachStore(DetachDocs(procs)) EXCEPT ![p] =
                  [Idle EXCEPT !.pc = "reindexFile", !.files = supportedFiles,
                               !.key = key, !.reindex = TRUE]]
            /\ ev' = [Ev("reindexStart", p) EXCEPT !.noKey = ~key]
    /\ UNCHANGED <<clock, apiVars, sideVars>>

\* Lines 112-148 for the next file, its text read: skipped when too short
\* (115-118); else addDocumentsToStore up to its first embedding call, which
\* throws at once when the key is missing (upload/route.ts:1397-1400) and is
\* caught at line 146.
ReindexFile(p, t) ==
    LET l == procs[p]
        name == Head(l.files)
        file == uploadDir[name]
        rest == [l EXCEPT !.files = Tail(l.files)]
    IN  /\ l.pc = "reindexFile"
        /\ IF file.len < MinContentLen
           THEN /\ procs' = [procs EXCEPT ![p] = AfterAdd(rest)]
                /\ ev' = [Ev("reindexSkip", p) EXCEPT !.noKey = ~l.key,
                              !.response = Response(rest)]
                /\ UNCHANGED <<clock, vectorStoreInstance>>
           ELSE /\ clock' = t
                /\ vectorStoreInstance' = getVectorStore
                /\ IF l.key
                   THEN /\ procs' = [procs EXCEPT ![p] =
                              [rest EXCEPT !.pc = "addEmbed", !.docId = NewDocId(t),
                                           !.src = ReindexSrc(name),
                                           !.n = SplitDocs(file).n, !.i = 0,
                                           !.vsCurrent = TRUE,
                                           !.whole = SplitDocs(file).whole,
                                           !.split = SplitDocs(file).split,
                                           !.file = SplitDocs(file).file]]
                        /\ ev' = [Ev("addStart", p) EXCEPT !.docId = NewDocId(t),
                                      !.src = ReindexSrc(name), !.calls = 1]
                   ELSE /\ procs' = [procs EXCEPT ![p] = AfterAdd(rest)]
                        /\ ev' = [Ev("reindexFail", p) EXCEPT !.ok = FALSE,
                                      !.noKey = TRUE, !.docId = NewDocId(t),
                                      !.src = ReindexSrc(name),
                                      !.response = Response(rest)]
        /\ UNCHANGED <<opCount, storedDocuments, documentMetas, apiVars, sideVars>>

\* The topK a chat request may carry: none, or a number.
TopKOverrides ==
    {NoTopK} \cup {[given |-> TRUE, value |-> v] :
                     v \in {MinTopK - 1, MinTopK, MaxTopK, MaxTopK + 1}}

\* chatSchema, part_000 line 7: topK is optional, and within 1..20 when given.
ValidTopK(o) == ~o.given \/ (o.value >= MinTopK /\ o.value <= MaxTopK)

\* The length of searches.slice(0, k) over n stored vectors.
SearchCount(n, k) ==
    IF k >= 0 THEN Min(k, n) ELSE (IF n + k > 0 THEN n + k ELSE 0)

\* The substrings the chat route looks for in the message of what was thrown.
ErrorMarkers ==
    {"AllocationQuota.FreeTierOnly", "free tier", "InvalidApiKey", "Unauthorized",
     "RateLimitExceeded", "ModelNotFound"}

\* What is thrown, as the set of those substrings its message contains: none,
\* each one alone, and messages that contain two of different kinds.
Errors ==
    {{}} \cup {{m} : m \in ErrorMarkers}
         \cup {{"free tier", "InvalidApiKey"}, {"RateLimitExceeded", "ModelNotFound"},
               {"Unauthorized", "ModelNotFound"}}

\* A route that answers with the message of what was thrown when it knows no
\* better.
ErrorMessageRaw(err) ==
    IF "AllocationQuota.FreeTierOnly" \in err \/ "free tier" \in err THEN "quota"
    ELSE IF "InvalidApiKey" \in err \/ "Unauthorized" \in err THEN "auth"
    ELSE IF "RateLimitExceeded" \in err THEN "rate"
    ELSE IF "ModelNotFound" \in err THEN "model"
    ELSE "raw"

\* part_000 lines 26-38: the answer of a failed chat request, by name: one of
\* the four messages of a category, or the generic one ("failed").
ErrorMessage(err) ==
    IF "AllocationQuota.FreeTierOnly" \in err \/ "free tier" \in err THEN "quota"
    ELSE IF "InvalidApiKey" \in err \/ "Unauthorized" \in err THEN "auth"
    ELSE IF "RateLimitExceeded" \in err THEN "rate"
    ELSE IF "ModelNotFound" \in err THEN "model"
    ELSE "failed"

\* Chat route POST and queryRag lines 16-22: the body is refused by the schema
\* (what the schema throws names none of the markers; the route answers 500), or the effective topK is resolved, the store is
\* fetched (created when there is none) and the question goes to embedQuery.
ChatPOST(p, o) ==
    IF ~ValidTopK(o)
    THEN /\ FreeSlot(p)
         /\ opCount < MaxOps
         /\ opCount' = opCount + 1
         /\ ev' = [Ev("chatInvalid", p) EXCEPT !.ok = FALSE, !.error = {},
                       !.answer = ErrorMessage({}), !.chunks = 0,
                       !.suggested = <<>>]
         /\ UNCHANGED <<clock, vectorStoreInstance, storedDocuments, documentMetas,
                        apiVars, procs, sideVars>>
    ELSE /\ FreeSlot(p)
         /\ opCount < MaxOps
         /\ opCount' = opCount + 1
         /\ vectorStoreInstance' = getVectorStore
         /\ procs' = [procs EXCEPT ![p] =
               [Idle EXCEPT !.pc = "queryEmbed", !.vsCurrent = TRUE,
                            !.override = o, !.cfgTopK = getRagConfig.topK,
                            !.topK = IF o.given THEN o.value ELSE getRagConfig.topK]]
         /\ ev' = [Ev("queryStart", p) EXCEPT !.override = o,
                       !.cfgTopK = getRagConfig.topK, !.calls = 1]
         /\ UNCHANGED <<clock, storedDocuments, documentMetas, apiVars, sideVars>>

\* A query that builds the prompt and invokes the model whatever was retrieved.
QueryEmbedOkAlwaysAsk(p) ==
    LET l == procs[p]
        docs == SearchCount(Len(vectorStoreInstance.memoryVectors), l.topK)
    IN  /\ l.pc = "queryEmbed"
        /\ procs' = [procs EXCEPT ![p] = [l EXCEPT !.pc = "queryLLM", !.docs = docs]]
        /\ ev' = [Ev("queryAsk", p) EXCEPT !.docs = docs, !.llm = 1]
        /\ UNCHANGED <<clock, opCount, vectorStoreInstance, storedDocuments,
                       documentMetas, apiVars, sideVars>>

\* queryRag lines 22-64, the question embedded: the search; with nothing
\* retrieved the fixed answer is returned (35-41), else the prompt is built and
\* the model invoked.
QueryEmbedOk(p) ==
    LET l == procs[p]
        docs == SearchCount(Len(vectorStoreInstance.memoryVectors), l.topK)
    IN  /\ l.pc = "queryEmbed"
        /\ IF docs = 0
           THEN /\ procs' = [procs EXCEPT ![p] = Idle]
                /\ ev' = [Ev("queryDone", p) EXCEPT !.docs = docs, !.chunks = 0,
                              !.answer = "noInfo", !.suggested = <<>>, !.llm = 0,
                              !.override = l.override, !.cfgTopK = l.cfgTopK,
                              !.ret = l.topK]
           ELSE /\ procs' = [procs EXCEPT ![p] = [l EXCEPT !.pc = "queryLLM",
                                                            !.docs = docs]]
                /\ ev' = [Ev("queryAsk", p) EXCEPT !.docs = docs, !.llm = 1]
        /\ UNCHANGED <<clock, opCount, vectorStoreInstance, storedDocuments,
                       documentMetas, apiVars, sideVars>>

\* embedQuery failed (missing or refused key, network, malformed answer), or
\* createLLM or the model failed with err: queryRag rejects, the chat route
\* answers 500 with the message chosen in its catch block (lines 23-44).
QueryFail(p, err) ==
    LET l == procs[p]
    IN  /\ l.pc \in {"queryEmbed", "queryLLM"}
        /\ procs' = [procs EXCEPT ![p] = Idle]
        /\ ev' = [Ev("queryFail", p) EXCEPT !.ok = FALSE, !.docs = l.docs,
                      !.llm = IF l.pc = "queryLLM" THEN 1 ELSE 0,
                      !.error = err, !.answer = ErrorMessage(err),
                      !.chunks = 0, !.suggested = <<>>]
        /\ UNCHANGED <<clock, opCount, vectorStoreInstance, storedDocuments,
                       documentMetas, apiVars, sideVars>>

\* A line that follows the separator: whether white space stands before it,
\* the list marker it starts with ("1. ", "- " or none) and the length of the
\* question itself.
Line(lead, marker, len) == [lead |-> lead, marker |-> marker, len |-> len]

\* What the model wrote: whether the separator is in it, and the lines after it.
RawAnswers ==
    {[sep |-> FALSE, lines |-> <<>>],
     [sep |-> TRUE,
      lines |-> <<Line(FALSE, "none", 0), Line(FALSE, "num", MaxQuestionLen),
                  Line(FALSE, "bullet", 7), Line(TRUE, "none", MaxQuestionLen - 1),
                  Line(FALSE, "num", 8), Line(FALSE, "none", 9)>>],
     [sep |-> TRUE,
      lines |-> <<Line(TRUE, "num", 5), Line(FALSE, "none", MaxQuestionLen + 1)>>]}

MarkerLen(marker) == IF marker = "num" THEN 3 ELSE IF marker = "bullet" THEN 2 ELSE 0

\* Line 78: q.replace(/^\d+\.\s*/, '').replace(/^[-\u2022]\s*/, '').trim(), as the
\* length of what is left: the patterns are anchored at the start of the line,
\* so a marker that follows white space stays.
StrippedLen(q) == IF q.lead THEN MarkerLen(q.marker) + q.len ELSE q.len

StrippedLens(lines) == [x \in DOMAIN lines |-> StrippedLen(lines[x])]

FirstN(s, n) == SubSeq(s, 1, Min(n, Len(s)))

\* queryRag lines 71-81: the follow-up questions kept, each as its length.
SuggestedQuestions(raw) ==
    IF raw.sep
    THEN FirstN(SelectSeq(StrippedLens(raw.lines),
                          LAMBDA q : q > 0 /\ q < MaxQuestionLen),
                MaxSuggested)
    ELSE <<>>

\* queryRag lines 64-84: the model answered; one chunk per retrieved document.
QueryLLMOk(p, raw) ==
    LET l == procs[p]
    IN  /\ l.pc = "queryLLM"
        /\ procs' = [procs EXCEPT ![p] = Idle]
        /\ ev' = [Ev("queryDone", p) EXCEPT !.docs = l.docs, !.chunks = l.docs,
                      !.answer = "llm", !.suggested = SuggestedQuestions(raw),
                      !.llm = 1, !.override = l.override, !.cfgTopK = l.cfgTopK,
                      !.ret = l.topK, !.raw = raw]
        /\ UNCHANGED <<clock, opCount, vectorStoreInstance, storedDocuments,
                       documentMetas, apiVars, sideVars>>

NextApi ==
    \/ \E p \in ApiProcs, key \in BOOLEAN, name \in FileNames, file \in UploadFiles,
          t \in NextReadings : UploadPOST(p, key, name, file, t)
    \/ \E p \in ApiProcs : AddEmbedOk(p)
    \/ \E p \in ApiProcs : AddEmbedFail(p)
    \/ \E p \in ApiProcs, body \in ConfigBodies : UpdateConfig(p, body)
    \/ \E p \in ApiProcs, id \in AskedIds : DeleteStart(p, id)
    \/ \E p \in ApiProcs : DeleteEmbedOk(p)
    \/ \E p \in ApiProcs : DeleteEmbedFail(p)
    \/ \E p \in ApiProcs : clearKnowledgeBase(p)
    \/ \E p \in ApiProcs, key, readable \in BOOLEAN : ReindexStart(p, key, readable)
    \/ \E p \in ApiProcs, t \in NextReadings : ReindexFile(p, t)
    \/ \E p \in ApiProcs, o \in TopKOverrides : ChatPOST(p, o)
    \/ \E p \in ApiProcs : QueryEmbedOk(p)
    \/ \E p \in ApiProcs, err \in Errors : QueryFail(p, err)
    \/ \E p \in ApiProcs, raw \in RawAnswers : QueryLLMOk(p, raw)

SpecApi == Init /\ [][NextApi]_vars

\* The functions of the store called one after the other, each call returning
\* or throwing before the next is made.
NextSerial ==
    \/ \E p \in ApiProcs, n \in DocSizes, t \in NextReadings :
          AddStart(p, n, t) /\ UNCHANGED uploadDir
    \/ \E p \in ApiProcs : AddEmbedOk(p)
    \/ \E p \in ApiProcs : AddEmbedFail(p)
    \/ \E p \in ApiProcs, id \in AskedIds : DeleteStart(p, id)
    \/ \E p \in ApiProcs : DeleteEmbedOk(p)
    \/ \E p \in ApiProcs : DeleteEmbedFail(p)
    \/ \E p \in ApiProcs : clearKnowledgeBase(p)
    \/ \E p \in ApiProcs : clearAllDocuments(p)

SpecSerial == Init /\ [][NextSerial]_vars

\* The two routes that ingest files, the splitter returning pieces or nothing.
NextIngest ==
    \/ \E p \in ApiProcs, key \in BOOLEAN, name \in FileNames, file \in IngestFiles,
          t \in NextReadings : UploadPOST(p, key, name, file, t)
    \/ \E p \in ApiProcs : AddEmbedOk(p)
    \/ \E p \in ApiProcs : AddEmbedFail(p)
    \/ \E p \in ApiProcs, key \in BOOLEAN : ReindexStart(p, key, TRUE)
    \/ \E p \in ApiProcs, t \in NextReadings : ReindexFile(p, t)

SpecIngest == Init /\ [][NextIngest]_vars

----------------------------------------------------------------------------
(* The feedback route, src/app/api/feedback/route.ts *)

MessageIds == 1..MaxMessages

\* Bodies of a POST: messageId (0: none given), whether question and answer
\* are given, feedbackType ("none": not given).
FeedbackBodies ==
    {[messageId |-> m, complete |-> TRUE, feedbackType |-> t] :
        m \in MessageIds, t \in {"like", "dislike"}}
    \cup {[messageId |-> 0, complete |-> TRUE, feedbackType |-> "like"],
          [messageId |-> 1, complete |-> FALSE, feedbackType |-> "like"],
          [messageId |-> 1, complete |-> TRUE, feedbackType |-> "none"],
          [messageId |-> 1, complete |-> TRUE, feedbackType |-> "meh"]}

\* Lines 61-67.
ValidFeedback(body) ==
    /\ body.messageId # 0
    /\ body.complete
    /\ body.feedbackType # "none"
    /\ body.feedbackType \in {"like", "dislike"}

\* loadFeedbackData, lines 33-48: the file's content, empty data when the
\* file cannot be read.
loadFeedbackData == IF feedbackFile.present THEN feedbackFile.data ELSE EmptyFeedbackData

\* records.findIndex(r => r.messageId === messageId), counted from 1; 0: none.
FindIndex(records, m) ==
    IF \E x \in DOMAIN records : records[x].messageId = m
    THEN CHOOSE x \in DOMAIN records :
            /\ records[x].messageId = m
            /\ \A y \in DOMAIN records : records[y].messageId = m => x <= y
    ELSE 0

\* Lines 75-84: the record of a request; by, the number of the request,
\* stands for its id and timestamp.
NewRecord(body, by) ==
    [messageId |-> body.messageId, feedbackType |-> body.feedbackType, by |-> by]

\* A decrement that always takes from the likes.
CountDownLikes(stats, type) == [stats EXCEPT !.totalLikes = @ - 1]

\* Lines 87-89, 135-137.
CountDown(stats, type) ==
    IF type = "like" THEN [stats EXCEPT !.totalLikes = @ - 1]
    ELSE [stats EXCEPT !.totalDislikes = @ - 1]

\* Lines 98-102.
CountUp(stats, type) ==
    IF type = "like" THEN [stats EXCEPT !.totalLikes = @ + 1]
    ELSE [stats EXCEPT !.totalDislikes = @ + 1]

\* A POST that always appends its record.
PostedDataAppend(data, rec) ==
    [records |-> Append(data.records, rec),
     stats |-> CountUp(data.stats, rec.feedbackType)]

\* Lines 72-103: the loaded data with the record put in the place of the one
\* of the same messageId, or appended, and the counters moved.
PostedData(data, rec) ==
    LET x == FindIndex(data.records, rec.messageId)
    IN  IF x > 0
        THEN [records |-> [data.records EXCEPT ![x] = rec],
              stats |-> CountUp(CountDown(data.stats, data.records[x].feedbackType),
                                rec.feedbackType)]
        ELSE [records |-> Append(data.records, rec),
              stats |-> CountUp(data.stats, rec.feedbackType)]

\* records.splice(x, 1).
Splice(records, x) == SubSeq(records, 1, x - 1) \o SubSeq(records, x + 1, Len(records))

\* Lines 134-139: the loaded data without the record at x, its counter moved.
DeletedData(data, x) ==
    [records |-> Splice(data.records, x),
     stats |-> CountDown(data.stats, data.records[x].feedbackType)]

\* POST, lines 56-103: a body that is not valid is answered 400; else the file
\* is loaded and the loaded data changed, and the handler goes on to save it.
FeedbackPOST(p, body) ==
    /\ FreeSlot(p)
    /\ opCount < MaxOps
    /\ opCount' = opCount + 1
    /\ IF ValidFeedback(body)
       THEN /\ procs' = [procs EXCEPT ![p] =
                  [Idle EXCEPT !.pc = "fbPostSave", !.fb = body,
                               !.data = PostedData(loadFeedbackData,
                                                   NewRecord(body, opCount + 1))]]
            /\ ev' = [Ev("fbPost", p) EXCEPT !.fb = body]
       ELSE /\ ev' = [Ev("fbInvalid", p) EXCEPT !.ok = FALSE, !.fb = body]
            /\ UNCHANGED procs
    /\ UNCHANGED <<clock, vectorStoreInstance, storedDocuments, documentMetas,
                   apiVars, sideVars>>

\* DELETE, lines 122-139: without a messageId the answer is 400; with a record
\* of that messageId in the loaded data the record is taken out and the
\* handler goes on to save; else it answers at once.
FeedbackDELETE(p, m) ==
    LET x == FindIndex(loadFeedbackData.records, m)
        fb == [NoFeedback EXCEPT !.messageId = m]
    IN  /\ FreeSlot(p)
        /\ opCount < MaxOps
        /\ opCount' = opCount + 1
        /\ IF m # 0 /\ x > 0
           THEN /\ procs' = [procs EXCEPT ![p] =
                      [Idle EXCEPT !.pc = "fbDeleteSave", !.fb = fb,
                                   !.data = DeletedData(loadFeedbackData, x)]]
                /\ ev' = [Ev("fbDelete", p) EXCEPT !.fb = fb]
           ELSE /\ ev' = [Ev(IF m = 0 THEN "fbInvalid" ELSE "fbDeleteNone", p)
                             EXCEPT !.ok = (m # 0), !.fb = fb]
                /\ UNCHANGED procs
        /\ UNCHANGED <<clock, vectorStoreInstance, storedDocuments, documentMetas,
                       apiVars, sideVars>>

\* saveFeedbackData, lines 50-53, called at 105 and 141: the file is written
\* with the data of the handler.
FeedbackSave(p) ==
    LET l == procs[p]
    IN  /\ l.pc \in {"fbPostSave", "fbDeleteSave"}
        /\ feedbackFile' = [present |-> TRUE, data |-> l.data]
        /\ procs' = [procs EXCEPT ![p] = Idle]
        /\ ev' = [Ev(IF l.pc = "fbPostSave" THEN "fbPosted" ELSE "fbDeleted", p)
                      EXCEPT !.fb = l.fb]
        /\ UNCHANGED <<clock, opCount, vectorStoreInstance, storedDocuments,
                       documentMetas, apiVars, embedVars, insertVars, deleted, streamVars>>

\* mkdir or writeFile failed: the route answers 500 (lines 114-117, 150-153).
FeedbackSaveFail(p) ==
    LET l == procs[p]
    IN  /\ l.pc \in {"fbPostSave", "fbDeleteSave"}
        /\ procs' = [procs EXCEPT ![p] = Idle]
        /\ ev' = [Ev("fbFail", p) EXCEPT !.ok = FALSE, !.fb = l.fb]
        /\ UNCHANGED <<clock, opCount, vectorStoreInstance, storedDocuments,
                       documentMetas, apiVars, sideVars>>

NextFeedback ==
    \/ \E p \in ApiProcs, body \in FeedbackBodies : FeedbackPOST(p, body)
    \/ \E p \in ApiProcs, m \in 0..MaxMessages : FeedbackDELETE(p, m)
    \/ \E p \in ApiProcs : FeedbackSave(p)
    \/ \E p \in ApiProcs : FeedbackSaveFail(p)

SpecFeedback == Init /\ [][NextFeedback]_vars

\* The feedback route with requests that overlap: a handler gives way between
\* its readFile and its writeFile (the awaits of lines 35-36 and 51-52).
NextFeedbackRace ==
    \/ \E p \in Procs, body \in FeedbackBodies : FeedbackPOST(p, body)
    \/ \E p \in Procs, m \in 0..MaxMessages : FeedbackDELETE(p, m)
    \/ \E p \in Procs : FeedbackSave(p)
    \/ \E p \in Procs : FeedbackSaveFail(p)

SpecFeedbackRace == Init /\ [][NextFeedbackRace]_vars

\* The routes that change the store or the feedback file.
NextRoutes ==
    \/ \E p \in ApiProcs, key \in BOOLEAN, name \in FileNames, file \in UploadFiles,
          t \in NextReadings : UploadPOST(p, key, name, file, t)
    \/ \E p \in ApiProcs : AddEmbedOk(p)
    \/ \E p \in ApiProcs : AddEmbedFail(p)
    \/ \E p \in ApiProcs, id \in AskedIds : DeleteStart(p, id)
    \/ \E p \in ApiProcs : DeleteEmbedOk(p)
    \/ \E p \in ApiProcs : DeleteEmbedFail(p)
    \/ \E p \in ApiProcs : clearKnowledgeBase(p)
    \/ \E p \in ApiProcs, key \in BOOLEAN : ReindexStart(p, key, TRUE)
    \/ \E p \in ApiProcs, t \in NextReadings : ReindexFile(p, t)
    \/ NextFeedback

SpecRoutes == Init /\ [][NextRoutes]_vars

----------------------------------------------------------------------------
(* The embedding client: DashScopeEmbeddings, src/app/api/upload/route.ts *)

\* A text: what it says (id), the white space around it (pad) and its length
\* once trimmed (len).  The i-th of n input texts, in one of a few shapes.
InputText(i, r) ==
    [id |-> i, pad |-> (i + r) % 2,
     len |-> IF (i + r) % 3 = 0 THEN MaxTextLen + 1 + r ELSE 1 + ((i + r) % 3)]

InputDocs(n, r) == [i \in 1..n |-> InputText(i, r)]

\* Lines 1403-1407: text.trim(), then cut to 2048 characters.
ProcessText(t) == [id |-> t.id, pad |-> 0, len |-> Min(t.len, MaxTextLen)]

ProcessedTexts(texts) == [x \in DOMAIN texts |-> ProcessText(texts[x])]

\* The service's answer to a request: data[x].embedding embeds input[x].
Embedding(t) == [of |-> t]
ServiceData(input) == [x \in DOMAIN input |-> Embedding(input[x])]

\* documents.slice(i): everything from i on goes into one request.
EmbedBatchRest(docs, i) == SubSeq(docs, i + 1, Len(docs))

\* documents.slice(i, i + batchSize), line 1376.
EmbedBatch(docs, i) == SubSeq(docs, i + 1, Min(i + EmbedBatchSize, Len(docs)))

\* results.unshift(...embeddings): each sub-batch lands before the earlier ones.
PushResultsFront(results, embeddings) == embeddings \o results

\* results.push(...embeddings), line 1378.
PushResults(results, embeddings) == results \o embeddings

LastCall == eCalls[Len(eCalls)]

InitEmbed ==
    /\ clock = 0
    /\ opCount = 0
    /\ vectorStoreInstance = Undefined
    /\ storedDocuments = <<>>
    /\ documentMetas = <<>>
    /\ ragConfig = DEFAULT_RAG_CONFIG
    /\ uploadDir = [name \in FileNames |-> NoFile]
    /\ procs = [p \in Procs |-> Idle]
    /\ ev = NoEv
    /\ eDocs \in {InputDocs(n, r) : n \in 0..MaxTexts, r \in 0..MaxShape}
    /\ ePc = "loop"
    /\ eI = 0
    /\ eResults = <<>>
    /\ eCalls = <<>>
    /\ eOut = [kind |-> "pending", value |-> <<>>]
    /\ InsertOff
    /\ feedbackFile = NoFeedbackFile
    /\ deleted = {}
    /\ StreamOff

\* Lines 1375-1377 and 1396-1420: the next sub-batch is cut, cleaned and sent.
EmbedSend ==
    /\ ePc = "loop"
    /\ eI < Len(eDocs)
    /\ eCalls' = Append(eCalls, [input |-> ProcessedTexts(EmbedBatch(eDocs, eI)),
                                 outcome |-> "pending"])
    /\ ePc' = "await"
    /\ UNCHANGED <<storeVars, insertVars, feedbackFile, deleted, streamVars, eDocs, eI, eResults, eOut>>

\* Lines 1428-1435 and 1378: the service answered, its embeddings are appended.
EmbedRecvOk ==
    /\ ePc = "await"
    /\ eCalls' = [eCalls EXCEPT ![Len(eCalls)].outcome = "ok"]
    /\ eResults' = PushResults(eResults, ServiceData(LastCall.input))
    /\ eI' = eI + EmbedBatchSize
    /\ ePc' = "loop"
    /\ UNCHANGED <<storeVars, insertVars, feedbackFile, deleted, streamVars, eDocs, eOut>>

\* A client that degrades instead of failing: the error of a sub-batch is
\* swallowed and the loop goes on with the next one.
EmbedRecvFailDegraded ==
    /\ ePc = "await"
    /\ eCalls' = [eCalls EXCEPT ![Len(eCalls)].outcome = "fail"]
    /\ eI' = eI + EmbedBatchSize
    /\ ePc' = "loop"
    /\ UNCHANGED <<storeVars, insertVars, feedbackFile, deleted, streamVars, eDocs, eResults, eOut>>

\* Lines 1422-1426, 1430-1433, 1436-1439: the request failed (network, HTTP
\* status, malformed body); the error is rethrown out of embedDocuments.
EmbedRecvFail ==
    /\ ePc = "await"
    /\ eCalls' = [eCalls EXCEPT ![Len(eCalls)].outcome = "fail"]
    /\ ePc' = "thrown"
    /\ eOut' = [kind |-> "error", value |-> <<>>]
    /\ UNCHANGED <<storeVars, insertVars, feedbackFile, deleted, streamVars, eDocs, eI, eResults>>

\* Lines 1386-1387: the loop is over, results is returned.
EmbedReturn ==
    /\ ePc = "loop"
    /\ eI >= Len(eDocs)
    /\ ePc' = "returned"
    /\ eOut' = [kind |-> "value", value |-> eResults]
    /\ UNCHANGED <<storeVars, insertVars, feedbackFile, deleted, streamVars, eDocs, eI, eResults, eCalls>>

NextEmbed ==
    \/ EmbedSend
    \/ EmbedRecvOk
    \/ EmbedRecvFail
    \/ EmbedReturn

SpecEmbed == InitEmbed /\ [][NextEmbed]_vars

----------------------------------------------------------------------------
(* One batch of addDocumentsToStore, vector-store.ts lines 121-136 *)

\* The lengths a vector of the service can have.
Dims == {2, 3}

\* The entry addVectors makes of one vector and one document: the library
\* stores the pair as it is given; embedding 0 stands for undefined.
MemoryVector(k, embedding) == [k |-> k, embedding |-> embedding]

\* vectors[j] (j counted from 0): undefined past the end of the array.
VectorAt(vectors, j) == IF j + 1 <= Len(vectors) THEN vectors[j + 1] ELSE 0

\* Sequences over Dims of length 0..n.
VectorLists(n) == UNION {[1..m -> Dims] : m \in 0..n}

\* The store holds nothing or earlier vectors of length 2; the batch has 1 to
\* MaxBatch documents; embedDocuments returned (it did not throw) at most as
\* many vectors, each of length 2 or 3.
InitInsert ==
    /\ clock = 0
    /\ opCount = 0
    /\ vectorStoreInstance = Undefined
    /\ storedDocuments = <<>>
    /\ documentMetas = <<>>
    /\ ragConfig = DEFAULT_RAG_CONFIG
    /\ uploadDir = [name \in FileNames |-> NoFile]
    /\ procs = [p \in Procs |-> Idle]
    /\ ev = NoEv
    /\ eDocs = <<>>
    /\ ePc = "off"
    /\ eI = 0
    /\ eResults = <<>>
    /\ eCalls = <<>>
    /\ eOut = [kind |-> "pending", value |-> <<>>]
    /\ feedbackFile = NoFeedbackFile
    /\ deleted = {}
    /\ StreamOff
    /\ iBatch \in 1..MaxBatch
    /\ iVectors \in VectorLists(iBatch)
    /\ iJ = 0
    /\ \E old \in 0..1 :
          /\ iMemory = [x \in 1..old |-> MemoryVector(0, 2)]
          /\ iStored = [x \in 1..old |-> 0]

\* Lines 125-136, one round of the loop: addVectors([vectors[j]], [doc]), then
\* the push to storedDocuments; nothing looks at the vector.
InsertOne ==
    /\ iJ < iBatch
    /\ iMemory' = Append(iMemory, MemoryVector(iJ + 1, VectorAt(iVectors, iJ)))
    /\ iStored' = Append(iStored, iJ + 1)
    /\ iJ' = iJ + 1
    /\ UNCHANGED <<storeVars, embedVars, feedbackFile, deleted, streamVars, iVectors, iBatch>>

\* Line 138: the batch is done.
InsertDone ==
    /\ iJ = iBatch
    /\ iBatch > 0
    /\ iJ' = iJ + 1
    /\ UNCHANGED <<storeVars, embedVars, feedbackFile, deleted, streamVars, iVectors, iBatch, iMemory,
                   iStored>>

NextInsert ==
    \/ InsertOne
    \/ InsertDone

SpecInsert == InitInsert /\ [][NextInsert]_vars

----------------------------------------------------------------------------
(* The streamed answer of a stream-only model: src/lib/llm.ts, _generate,    *)
(* lines 72-107.  The body is a sequence of pieces; a read may end after any *)
(* piece.  A cut inside the "data: " prefix or inside the JSON text has the   *)
(* effect of the cut after the prefix or before the closing piece: neither   *)
(* part is a line that starts with "data: " and parses.                      *)

\* The content of a delta: a text, << >> for a delta with no content.
DeltaTexts == {<<>>, <<"a">>, <<"b">>}

Piece(t, d) == [t |-> t, delta |-> d]

DataPrefix == Piece("data: ", <<>>)
JsonOpen(d) == Piece("json", d)
JsonClose == Piece("}", <<>>)
DoneMark == Piece("[DONE]", <<>>)
NewLine == Piece("nl", <<>>)

\* One server-sent event carrying a delta, and the closing event.
DeltaEvent(d) == <<DataPrefix, JsonOpen(d), JsonClose, NewLine, NewLine>>
DoneEvent == <<DataPrefix, DoneMark, NewLine, NewLine>>

RECURSIVE Events(_)
Events(sent) ==
    IF sent = <<>> THEN DoneEvent ELSE DeltaEvent(Head(sent)) \o Events(Tail(sent))

\* chunk.split('\n'), line 88.
RECURSIVE SplitLines(_, _)
SplitLines(chunk, line) ==
    IF chunk = <<>> THEN <<line>>
    ELSE IF Head(chunk) = NewLine THEN <<line>> \o SplitLines(Tail(chunk), <<>>)
    ELSE SplitLines(Tail(chunk), Append(line, Head(chunk)))

NotBlank(line) == line # <<>>

\* Lines 91-104 for one line: what it adds to content.
LineContent(line) ==
    IF Head(line) # DataPrefix THEN <<>>
    ELSE LET data == Tail(line)
         IN  IF data = <<DoneMark>> THEN <<>>
             ELSE IF Len(data) = 2 /\ data[1].t = "json" /\ data[2] = JsonClose
             THEN data[1].delta
             ELSE <<>>

RECURSIVE LinesContent(_)
LinesContent(lines) ==
    IF lines = <<>> THEN <<>>
    ELSE LineContent(Head(lines)) \o LinesContent(Tail(lines))

\* Lines 87-105 for one chunk: split, blank lines dropped, each line read.
ChunkContent(chunk) == LinesContent(SelectSeq(SplitLines(chunk, <<>>), NotBlank))

\* The longest body, in pieces: a read takes any number of them.
MaxRead == Len(DoneEvent) + MaxDeltas * Len(DeltaEvent(<<>>))

\* The answers the server may stream.
SentDeltas == UNION {[1..n -> DeltaTexts] : n \in 0..MaxDeltas}

InitStream ==
    /\ clock = 0
    /\ opCount = 0
    /\ vectorStoreInstance = Undefined
    /\ storedDocuments = <<>>
    /\ documentMetas = <<>>
    /\ ragConfig = DEFAULT_RAG_CONFIG
    /\ uploadDir = [name \in FileNames |-> NoFile]
    /\ procs = [p \in Procs |-> Idle]
    /\ ev = NoEv
    /\ eDocs = <<>>
    /\ ePc = "off"
    /\ eI = 0
    /\ eResults = <<>>
    /\ eCalls = <<>>
    /\ eOut = [kind |-> "pending", value |-> <<>>]
    /\ InsertOff
    /\ feedbackFile = NoFeedbackFile
    /\ deleted = {}
    /\ gSent \in SentDeltas
    /\ gBody = Events(gSent)
    /\ gContent = <<>>
    /\ gPc = "read"

\* reader.read() gives the next k pieces (line 84); lines 87-105 run on them.
GenerateRead(k) ==
    /\ gPc = "read"
    /\ k \in 1..Len(gBody)
    /\ gContent' = gContent \o ChunkContent(SubSeq(gBody, 1, k))
    /\ gBody' = SubSeq(gBody, k + 1, Len(gBody))
    /\ UNCHANGED <<storeVars, embedVars, insertVars, feedbackFile, deleted, gSent, gPc>>

\* reader.read() reports done (line 85); content is returned.
GenerateDone ==
    /\ gPc = "read"
    /\ gBody = <<>>
    /\ gPc' = "done"
    /\ UNCHANGED <<storeVars, embedVars, insertVars, feedbackFile, deleted, gSent, gBody,
                   gContent>>

NextStream ==
    \/ \E k \in 1..MaxRead : GenerateRead(k)
    \/ GenerateDone

SpecStream == InitStream /\ [][NextStream]_vars

----------------------------------------------------------------------------
(* Properties *)

CountOf(entries, id) == Cardinality({x \in DOMAIN entries : entries[x].docId = id})

\* The chunks of the document a record stands for.
DocChunks(m) == {Chunk(m.id, m.src, k) : k \in 1..m.chunkCount}

SurvivingChunks == UNION {DocChunks(m) : m \in Range(documentMetas)}

AllStored == Range(storedDocuments) \cup Searchable

\* C1: in every reachable state every record of documentMetas has a chunkCount
\* equal to the number of entries of the vector index that carry its id.
C1_ChunkCountMatchesEntries ==
    \A x \in DOMAIN documentMetas :
        documentMetas[x].chunkCount =
            CountOf(vectorStoreInstance.memoryVectors, documentMetas[x].id)

\* C1, read on the retained corpus: chunkCount equals the number of entries of
\* storedDocuments that carry the record's id.
C1_ChunkCountMatchesStored ==
    \A x \in DOMAIN documentMetas :
        documentMetas[x].chunkCount = CountOf(storedDocuments, documentMetas[x].id)

\* C2: when addDocumentsToStore fails on an embedding call, no chunk of that
\* file is left in storedDocuments or in the index, and no record of it exists.
C2_FailedAddLeavesNothing ==
    ev.op = "addFail" =>
        /\ \A c \in AllStored : c.src # ev.src
        /\ \A m \in Range(documentMetas) : m.src # ev.src

\* C3: when deleteDocument(d.id) has returned, search returns no chunk tagged
\* d.id and totalChunks is what it was when the call began minus d.chunkCount,
\* for every record d the call removed.
C3_DeletionLaw ==
    ev.op = "delDone" =>
        /\ \A c \in Searchable : c.docId # ev.docId
        /\ \A x \in DOMAIN ev.removed :
              getKnowledgeBaseStats.totalChunks + ev.removed[x] = ev.before

Quiet == \A p \in Procs : procs[p].pc = "idle"

\* C4: when deleteDocument has returned or a clear has run, and no other request
\* is under way, the index returns exactly the chunks of the documents that
\* still have a record.
C4_SearchReflectsSurvivors ==
    (ev.op \in {"delDone", "clear", "clearAll"} /\ Quiet)
        => Searchable = SurvivingChunks

\* Handler p is suspended at an await between its first and its last write.
MidWrite(p) ==
    \/ procs[p].pc = "delEmbed"
    \/ procs[p].pc = "addEmbed" /\ procs[p].i > 0

\* C5: while a mutation is suspended between its first and last write, no other
\* mutation starts or resumes: the last step taken is its own.
C5_MutualExclusion == \A p \in Procs : MidWrite(p) => ev.proc = p

\* C6: no two records share an id, and no two ingestions tag chunks with the
\* same docId, whether finished or still running.
C6_FreshUniqueIds ==
    /\ \A x, y \in DOMAIN documentMetas :
          x # y => documentMetas[x].id # documentMetas[y].id
    /\ \A c, d \in AllStored : c.src # d.src => c.docId # d.docId
    /\ \A p, q \in Procs :
          (p # q /\ procs[p].pc = "addEmbed" /\ procs[q].pc = "addEmbed")
              => procs[p].docId # procs[q].docId

\* C7: deleteDocument of an id that matches no record (and no retained chunk, so
\* that documentMetas and storedDocuments keep their content) ends in success
\* and leaves the searchable set as it was.
C7_UnknownDeleteIsNoOp ==
    (ev.op \in {"delDone", "delFail"} /\ ev.kept) => (ev.ok /\ ev.same)

Globals == <<vectorStoreInstance, storedDocuments, documentMetas, procs>>

\* C8: once clearKnowledgeBase has run the store is empty and the statistics
\* read 0 documents and 0 chunks, and a second clearKnowledgeBase right after
\* the first changes nothing.
C8_ClearIdempotent ==
    /\ [](ev.op = "clear" =>
            /\ ~vectorStoreInstance.defined
            /\ storedDocuments = <<>>
            /\ documentMetas = <<>>
            /\ getKnowledgeBaseStats = [documentCount |-> 0, totalChunks |-> 0])
    /\ [][(ev'.op = "clear" /\ ev'.again) => Globals' = Globals]_vars

\* A second clear in a row, run while an add that had already stored its first
\* batch is still waiting for the embedding of its second.
C8_Witness ==
    /\ ev.op = "clear"
    /\ ev.again
    /\ \E p \in Procs : procs[p].pc = "addEmbed" /\ procs[p].i > 0

\* C9: when every sub-batch call succeeded, embedDocuments returns one vector
\* per input text and the i-th is the one the service produced for text i.
C9_OrderPreserved ==
    ePc = "returned" =>
        /\ eOut.kind = "value"
        /\ Len(eOut.value) = Len(eDocs)
        /\ \A x \in DOMAIN eDocs : eOut.value[x] = Embedding(ProcessText(eDocs[x]))

\* A call that returned after three sub-batches.
C9_Witness == ePc = "returned" /\ Len(eDocs) > 2 * EmbedBatchSize

\* C10: a failed sub-batch request is the last one sent; the call then throws,
\* the caller gets no vector, and no request is sent twice.
C10_FailureDiscardsAll ==
    /\ \A k \in DOMAIN eCalls :
          eCalls[k].outcome = "fail" =>
              /\ k = Len(eCalls)
              /\ ePc = "thrown"
              /\ eOut = [kind |-> "error", value |-> <<>>]
    /\ \A j, k \in DOMAIN eCalls : j # k => eCalls[j].input # eCalls[k].input

\* The second sub-batch failed after the first had produced its vectors.
C10_Witness == ePc = "thrown" /\ Len(eCalls) >= 2 /\ eResults # <<>>

\* C11: no request to the embedding service carries more than 10 texts, and a
\* sub-batch is sent only when every earlier one of the call has been answered
\* with success: at most the newest request is unanswered or failed.
C11_SmallSequentialBatches ==
    /\ \A k \in DOMAIN eCalls : Len(eCalls[k].input) <= EmbedBatchSize
    /\ \A k \in DOMAIN eCalls : k < Len(eCalls) => eCalls[k].outcome = "ok"
    /\ ePc = "await" <=> (eCalls # <<>> /\ LastCall.outcome = "pending")

\* The third sub-batch of a call is on its way.
C11_Witness == Len(eCalls) = 3 /\ LastCall.outcome = "pending" /\ Len(LastCall.input) = 1

\* C19: no step of deleteDocument sends a request to the embedding service, and
\* the call never fails.
C19_DeleteCallsNoEmbedding ==
    ev.op \in {"delStart", "delBatch", "delDone", "delFail"} =>
        (ev.calls = 0 /\ ev.ok)

\* C12: the statistics count the live records and add up their chunkCount; two
\* ingestions of 3 and 4 chunks read {2, 7}, and once the delete of the
\* 3-chunk document has returned they read {1, 4}.
C12_StatsScenario ==
    /\ getKnowledgeBaseStats.documentCount = Cardinality(DOMAIN documentMetas)
    /\ ChunkCounts(documentMetas) = <<3, 4>> =>
          getKnowledgeBaseStats = [documentCount |-> 2, totalChunks |-> 7]
    /\ (ev.op = "delDone" /\ ev.before = 7 /\ ev.removed # <<>> /\ Head(ev.removed) = 3)
          => getKnowledgeBaseStats = [documentCount |-> 1, totalChunks |-> 4]

\* C13: a query that retrieved nothing returns the fixed answer with no chunk
\* and no suggestion, and the model is not invoked for it: whenever the model
\* is being or has been invoked, something was retrieved.
C13_EmptyRetrievalShortCircuits ==
    /\ (ev.op = "queryDone" /\ ev.docs = 0) =>
          /\ ev.answer = "noInfo"
          /\ ev.chunks = 0
          /\ ev.suggested = <<>>
          /\ ev.llm = 0
    /\ ev.llm > 0 => ev.docs > 0
    /\ \A p \in Procs : procs[p].pc = "queryLLM" => procs[p].docs > 0

\* A query got the fixed answer although the store holds chunks: it ran with
\* a topK of 0.
C13_Witness ==
    /\ ev.op = "queryDone"
    /\ ev.docs = 0
    /\ ev.answer = "noInfo"
    /\ Searchable # {}

\* C14: the step that refuses an upload (or skips a file of a reindex) for a
\* text of fewer than 10 characters sends nothing to the embedding service and
\* leaves documentMetas, storedDocuments and the vector store as they were.
C14_ShortTextRejectedUntouched ==
    [][ev'.op \in {"uploadEmpty", "reindexSkip"} =>
          /\ ev'.calls = 0
          /\ documentMetas' = documentMetas
          /\ storedDocuments' = storedDocuments
          /\ vectorStoreInstance' = vectorStoreInstance]_vars

\* A 9-character upload was refused while a document was stored.
C14_Witness ==
    /\ ev.op = "uploadEmpty"
    /\ documentMetas # <<>>
    /\ Searchable # {}
    /\ \E name \in FileNames : uploadDir[name].len = MinContentLen - 1

\* C15: after setRagConfig(body) every field the body names has the body's
\* value, every other field the value it had, and getRagConfig returns that.
C15_MergeUpdate ==
    [][ev'.op = "updateConfig" =>
          \A f \in ConfigFields :
              /\ f \in DOMAIN ev'.body => getRagConfig'[f] = ev'.body[f]
              /\ f \notin DOMAIN ev'.body => getRagConfig'[f] = getRagConfig[f]]_vars

\* An update of topK alone, made after an earlier update had set the model and
\* the temperature.
C15_Witness ==
    /\ ev.op = "updateConfig"
    /\ ev.body = [topK |-> 2]
    /\ ragConfig.temperature # DefaultTemperature
    /\ ragConfig.topK = 2

\* C16: the configuration is always within its ranges: topK 1..20, chunkSize
\* 100..2000, chunkOverlap 0..500, temperature 0..1 (0..10 tenths).
C16_ConfigInRange ==
    /\ ragConfig.topK >= 1 /\ ragConfig.topK <= 20
    /\ ragConfig.chunkSize >= 100 /\ ragConfig.chunkSize <= 2000
    /\ ragConfig.chunkOverlap >= 0 /\ ragConfig.chunkOverlap <= 500
    /\ ragConfig.temperature >= 0 /\ ragConfig.temperature <= 10

\* C17: a configuration update leaves documentMetas, storedDocuments and the
\* vector store, hence every chunk ingested so far, as they were.
C17_ConfigLeavesStore ==
    [][ev'.op = "updateConfig" =>
          /\ documentMetas' = documentMetas
          /\ storedDocuments' = storedDocuments
          /\ vectorStoreInstance' = vectorStoreInstance]_vars

\* chunkSize and chunkOverlap were changed while a document was stored.
C17_Witness ==
    /\ ev.op = "updateConfig"
    /\ "chunkSize" \in DOMAIN ev.body
    /\ ragConfig.chunkSize # DefaultChunkSize
    /\ documentMetas # <<>>
    /\ Searchable # {}

\* C18: no step of an upload or a reindex that runs without the credential, and
\* no step of a query, changes documentMetas, storedDocuments or what the index
\* holds.
C18_NoCredentialNoChange ==
    [][(ev'.noKey \/ ev'.op \in {"chatInvalid", "queryStart", "queryAsk",
                                  "queryDone", "queryFail"}) =>
          /\ documentMetas' = documentMetas
          /\ storedDocuments' = storedDocuments
          /\ Searchable' = Searchable]_vars

\* C20: the chunks a query returns were retrieved with topK, the request's own
\* when it carries one and the configured one otherwise, and are no more than
\* topK (looked at when at least one chunk is returned).
C20_AtMostTopK ==
    (ev.op = "queryDone" /\ ev.chunks > 0) =>
        LET topK == IF ev.override.given THEN ev.override.value ELSE ev.cfgTopK
        IN  /\ ev.ret = topK
            /\ ev.docs <= topK
            /\ ev.chunks <= topK

\* The lines, leading marker stripped and then trimmed, that are neither empty
\* nor longer than 100 characters.
KeptLens(lines) ==
    SelectSeq(StrippedLens(lines), LAMBDA q : q > 0 /\ q <= MaxQuestionLen)

\* C21: the suggested questions are the first three lines after the separator
\* that, marker stripped and trimmed, are non-empty and at most 100 characters
\* long; without a separator there is none.
C21_SuggestedQuestions ==
    (ev.op = "queryDone" /\ ev.answer = "llm") =>
        ev.suggested = IF ev.raw.sep THEN FirstN(KeptLens(ev.raw.lines), MaxSuggested)
                       ELSE <<>>

\* C22: every record of documentMetas has a chunkCount of at least 1.
C22_RecordHasChunks ==
    \A x \in DOMAIN documentMetas : documentMetas[x].chunkCount >= 1

\* A record exists for a file the splitter had returned nothing for.
C22_Witness ==
    \E x \in DOMAIN documentMetas :
        Chunk(documentMetas[x].id, documentMetas[x].src, 0) \in Range(storedDocuments)

CountSrc(entries, src) == Cardinality({x \in DOMAIN entries : entries[x].src = src})

\* C23: a text accepted for ingestion for which the splitter returned no
\* piece is not refused, and its ingestion, in the upload and in the reindex
\* route, stores exactly one chunk, the whole normalised text, under a record
\* that counts one chunk.
C23_FallbackLaw ==
    /\ ev.op # "uploadNoChunks"
    /\ (ev.op = "addDone" /\ ev.split = 0) =>
          /\ CountSrc(storedDocuments, ev.src) = 1
          /\ CountSrc(vectorStoreInstance.memoryVectors, ev.src) = 1
          /\ Chunk(ev.docId, ev.src, 0) \in Range(storedDocuments)
          /\ Chunk(ev.docId, ev.src, 0) \in Searchable
          /\ documentMetas[Len(documentMetas)] =
                [id |-> ev.docId, src |-> ev.src, chunkCount |-> 1,
                 file |-> documentMetas[Len(documentMetas)].file]

\* A reindex has ingested such a file as one chunk.
C23_Witness ==
    /\ ev.op = "addDone"
    /\ ev.split = 0
    /\ ev.src > MaxOps

\* The category each marker stands for.
Category(m) ==
    IF m \in {"AllocationQuota.FreeTierOnly", "free tier"} THEN "quota"
    ELSE IF m \in {"InvalidApiKey", "Unauthorized"} THEN "auth"
    ELSE IF m = "RateLimitExceeded" THEN "rate"
    ELSE "model"

\* C27: a failed chat request is answered with one of five fixed messages,
\* that of a category the error belongs to, the generic one when it belongs
\* to none, never with the text of the error; its chunks and suggested
\* questions are empty.
C27_FriendlyFailure ==
    ev.op \in {"queryFail", "chatInvalid"} =>
        /\ ev.answer \in {"quota", "auth", "rate", "model", "failed"}
        /\ IF ev.error = {} THEN ev.answer = "failed"
           ELSE ev.answer \in {Category(m) : m \in ev.error}
        /\ ev.chunks = 0
        /\ ev.suggested = <<>>

\* The model was invoked on retrieved chunks and the service refused for rate.
C27_Witness ==
    /\ ev.op = "queryFail"
    /\ ev.llm = 1
    /\ ev.docs > 0
    /\ ev.error = {"RateLimitExceeded"}
    /\ ev.answer = "rate"

\* C24: all vectors a store instance holds have the same dimension, that of
\* the first one inserted; a vector of another length, or a missing one, adds
\* no entry.
C24_OneDimension ==
    \A x, y \in DOMAIN iMemory : iMemory[x].embedding = iMemory[y].embedding

FeedbackRecords == feedbackFile.data.records

\* C25: the feedback log holds at most one record per messageId; a POST for a
\* messageId that has a record puts its record in the place of that one and
\* leaves the others as they are, a POST for a new messageId appends its
\* record, and a DELETE takes the record of its messageId out.
C25_KeyedByMessageId ==
    /\ [](\A x, y \in DOMAIN FeedbackRecords :
             FeedbackRecords[x].messageId = FeedbackRecords[y].messageId => x = y)
    /\ [][LET old == FeedbackRecords
              new == FeedbackRecords'
              m == ev'.fb.messageId
              rec == [messageId |-> m, feedbackType |-> ev'.fb.feedbackType,
                      by |-> opCount]
          IN  /\ ev'.op = "fbPosted" =>
                    IF \E x \in DOMAIN old : old[x].messageId = m
                    THEN /\ Len(new) = Len(old)
                         /\ \A x \in DOMAIN old :
                               new[x] = IF old[x].messageId = m THEN rec ELSE old[x]
                    ELSE new = Append(old, rec)
              /\ ev'.op = "fbDeleted" =>
                    /\ \A x \in DOMAIN new : new[x].messageId # m
                    /\ new = SelectSeq(old, LAMBDA r : r.messageId # m)
       ]_vars

\* The third request has replaced the first of two records where it stood.
C25_Witness ==
    /\ ev.op = "fbPosted"
    /\ Len(FeedbackRecords) = 2
    /\ FeedbackRecords[1].by = 3
    /\ FeedbackRecords[2].by = 2

FeedbackOps ==
    {"fbPost", "fbPosted", "fbDelete", "fbDeleted", "fbDeleteNone", "fbInvalid",
     "fbFail"}

\* C26: no step of a feedback request changes documentMetas, storedDocuments or
\* the vector index, and no step of any other request (upload, deletion,
\* clear, reindex) changes the feedback file.
C26_FeedbackIndependent ==
    [][/\ ev'.op \in FeedbackOps =>
             UNCHANGED <<vectorStoreInstance, storedDocuments, documentMetas>>
       /\ ev'.op \notin FeedbackOps => feedbackFile' = feedbackFile]_vars

\* The store was cleared while the feedback file held a record.
C26_Witness ==
    /\ ev.op \in {"clear", "clearAll"}
    /\ FeedbackRecords # <<>>

\* C28: on a store that holds document 1, when one addDocumentsToStore and one
\* deleteDocument of document 1 were called, in any interleaving, and both
\* have returned (two calls were made, nothing is under way, the record of
\* document 1 is gone), every chunk of the added document is in the current
\* index and in storedDocuments.
C28_AddSurvivesDelete ==
    (Quiet /\ opCount = 2 /\ \A m \in Range(documentMetas) : m.id # 1)
        => \A m \in Range(documentMetas) :
              /\ DocChunks(m) \subseteq Searchable
              /\ DocChunks(m) \subseteq Range(storedDocuments)

\* C29: when two concurrent deleteDocument calls on distinct documents have
\* both returned, the current index returns no chunk of either: every chunk
\* it returns belongs to a document that still has a record.
C29_DeletesLeaveNoChunk ==
    Quiet => \A c \in Searchable : \E m \in Range(documentMetas) : m.id = c.docId

CountChunks(entries, m) ==
    Cardinality({x \in DOMAIN entries :
                    entries[x].docId = m.id /\ entries[x].src = m.src})

\* C30: when an addDocumentsToStore and a concurrent clear have both returned,
\* each record's chunkCount is the number of its chunks in storedDocuments
\* and the number of its chunks in the current index.
C30_AddClearAgree ==
    Quiet => \A m \in Range(documentMetas) :
                /\ m.chunkCount = CountChunks(storedDocuments, m)
                /\ m.chunkCount = CountChunks(vectorStoreInstance.memoryVectors, m)

\* C31: when deleteDocument has failed, either nothing of the store has
\* changed, or the document has no record, no chunk in storedDocuments and no
\* chunk the index returns.
C31_FailedDeleteConsistent ==
    ev.op = "delFail" =>
        \/ ev.kept
        \/ /\ \A m \in Range(documentMetas) : m.id # ev.docId
           /\ \A c \in Range(storedDocuments) : c.docId # ev.docId
           /\ \A c \in Searchable : c.docId # ev.docId

\* C32: whenever no request is under way, the current index holds the chunks
\* of storedDocuments, the same ones in the same order (no index reads as an
\* empty one).
C32_IndexEqualsCorpus ==
    Quiet => vectorStoreInstance.memoryVectors = storedDocuments

\* Chunks kept or searchable that no record of documentMetas accounts for.
Orphans ==
    {c \in AllStored :
        \A m \in Range(documentMetas) : ~(m.id = c.docId /\ m.src = c.src)}

\* C33, the counts: when a reindex request has answered, documentCount is the
\* processed count of the answer and totalChunks is its totalChunks.
C33_ReindexCounts ==
    ev.response.done =>
        getKnowledgeBaseStats = [documentCount |-> ev.response.processed,
                                 totalChunks |-> ev.response.totalChunks]

\* C33: when a reindex request has answered, the store holds exactly the
\* documents reported as successful: the two counts agree with the answer and
\* no chunk of a failed or skipped file is in storedDocuments or in the index.
C33_ReindexHoldsSuccessful ==
    ev.response.done =>
        /\ getKnowledgeBaseStats = [documentCount |-> ev.response.processed,
                                    totalChunks |-> ev.response.totalChunks]
        /\ Orphans = {}

\* C34: a document deleteDocument has removed does not come back unless its
\* file is uploaded again: no record, and so no chunk under a record, stands
\* for a file of the uploads directory whose document was deleted.
C34_DeletedStaysDeleted ==
    \A m \in Range(documentMetas) : m.file \notin deleted

\* C35: the remainingChunks deleteDocument returns is the totalChunks that
\* getKnowledgeBaseStats reads right after the call has returned.
C35_RemainingIsTotal ==
    ev.op = "delDone" => ev.ret = getKnowledgeBaseStats.totalChunks

\* C36: a reindex request that finds no uploads directory, or no supported
\* file in it, leaves documentMetas, storedDocuments and the vector index as
\* they were; a reindex request that goes on to clear the store has found at
\* least one supported file.
C36_EmptyReindexKeepsStore ==
    [][/\ ev'.op \in {"reindexNone", "reindexNoDir"} =>
            UNCHANGED <<documentMetas, storedDocuments, vectorStoreInstance>>
       /\ ev'.op = "reindexStart" => supportedFiles # <<>>]_vars

\* A reindex request has found no directory while the store held a document,
\* and the store still holds it.
C36_Witness ==
    /\ ev.op = "reindexNoDir"
    /\ documentMetas # <<>>
    /\ storedDocuments # <<>>
    /\ vectorStoreInstance # Undefined

\* A reindex request has found a directory without any supported file.
C36_WitnessNoFile == ev.op = "reindexNone"

\* The number of records of the feedback file with the given feedbackType.
RecordsOfType(type) ==
    Cardinality({x \in DOMAIN FeedbackRecords : FeedbackRecords[x].feedbackType = type})

\* C37: from an empty feedback log, with the POST and DELETE requests executed
\* one after the other, totalLikes is the number of 'like' records and
\* totalDislikes the number of 'dislike' records, neither is negative, and a
\* DELETE for a messageId that has no record leaves the file as it was.
C37_CountersMatchRecords ==
    /\ [](/\ feedbackFile.data.stats.totalLikes = RecordsOfType("like")
          /\ feedbackFile.data.stats.totalDislikes = RecordsOfType("dislike")
          /\ feedbackFile.data.stats.totalLikes >= 0
          /\ feedbackFile.data.stats.totalDislikes >= 0)
    /\ [][ev'.op = "fbDeleteNone" =>
            /\ feedbackFile' = feedbackFile
            /\ \A x \in DOMAIN FeedbackRecords :
                  FeedbackRecords[x].messageId # ev'.fb.messageId]_vars

\* A record was posted and then taken out by a DELETE, which brought the
\* counters back to zero.
C37_Witness ==
    /\ ev.op = "fbDeleted"
    /\ opCount = 2
    /\ FeedbackRecords = <<>>
    /\ feedbackFile.present

\* A DELETE for a messageId without a record was answered while the file held
\* a record of another messageId.
C37_WitnessUnknown ==
    /\ ev.op = "fbDeleteNone"
    /\ FeedbackRecords # <<>>

\* C38: when two feedback POST requests for distinct messageIds, the only
\* requests made, are both answered with success, in any interleaving, the
\* file holds a record for each of the two messageIds: the save of the second
\* to finish finds the record of the first in the file and leaves a file with
\* that record and its own.
C38_NoLostFeedback ==
    [][(/\ ev'.op = "fbPosted"
        /\ opCount = 2
        /\ \E x \in DOMAIN FeedbackRecords :
              FeedbackRecords[x].messageId # ev'.fb.messageId)
          => \A m \in MessageIds :
                (\/ m = ev'.fb.messageId
                 \/ \E x \in DOMAIN FeedbackRecords : FeedbackRecords[x].messageId = m)
                   => \E y \in DOMAIN FeedbackRecords' :
                         FeedbackRecords'[y].messageId = m]_vars

RECURSIVE Concatenation(_)
Concatenation(texts) ==
    IF texts = <<>> THEN <<>> ELSE Head(texts) \o Concatenation(Tail(texts))

\* C39: when _generate returns for a stream-only model, the text it returns is
\* the concatenation, in order, of the delta contents the server sent,
\* wherever the reads cut the body.
C39_StreamedTextComplete == gPc = "done" => gContent = Concatenation(gSent)
====
